---- MODULE Spec2Model ----
(***************************************************************************)
(* A model of plp_edmodule: the pricing engine (EducationalModule          *)
(* .get_price_list, get_first_session_to_buy), promo codes (PromoCode      *)
(* .validate / .calculate), module enrollments and their graduation        *)
(* (update_modules_graduation), the enrollment types of modules            *)
(* (get_available_enrollment_types), and the progress sync client          *)
(* (EDXEnrollmentExtension.request, update_module_enrollment_progress).    *)
(*                                                                         *)
(* Conventions.  Times, dates, prices and percents are naturals, and a     *)
(* null (None) in such a field is the integer None, below all of them; a   *)
(* table is the set of its rows.  Course and session prices are integers   *)
(* (roubles), as                                                           *)
(* the IntegerFields of the code; Decimal results with two places are      *)
(* integers counting hundredths (kopecks); discount_percent, a Decimal     *)
(* with two places, is an integer counting hundredths of a percent.        *)
(***************************************************************************)
EXTENDS Integers, Sequences, FiniteSets, TLC

VARIABLES
    \* ---- catalog (plp.Course / CourseSession / SessionEnrollmentType rows)
    module,        \* the EducationalModule row: [id, courses, discount]
    courses,       \* course id -> [is_project, next_session]
    sessions,      \* session id -> CourseSession row with its verified type
    participants,  \* the user's Participant rows, each with its EnrollmentReason
    moduleCourses, \* module id -> ids of the courses of that module
    plist,         \* what the last get_price_list call returned
    \* ---- promo codes
    promos,        \* the PromoCode table
    payer,         \* payer -> position of the payment flow
    vres,          \* the last validate call and what it returned
    cres,          \* the last calculate call and what it returned
    \* ---- module enrollments
    enrollments,   \* the EducationalModuleEnrollment table
    enrRes,        \* the last creation of an enrollment and how it ended
    \* ---- progress sync
    progressRecs,  \* the EducationalModuleProgress table
    proc,          \* caller -> its update_module_enrollment_progress call
    \* ---- enrollment types of modules
    enrTypes,      \* the EducationalModuleEnrollmentType table
    tres           \* the last enrollment-type query and what it returned

catVars   == <<module, courses, sessions, participants, moduleCourses>>
promoVars == <<promos, payer, vres, cres>>
enrVars   == <<enrollments, enrRes>>
edxVars   == <<progressRecs, proc>>
typeVars  == <<enrTypes, tres>>
vars      == <<module, courses, sessions, participants, plist,
               promos, payer, vres, cres, enrollments, enrRes,
               progressRecs, proc, enrTypes, tres, moduleCourses>>

\* None in a numeric field
None   == 0 - 1
\* None passed for a user
NoUser == "None"

\* ------------------------------------------------------------------------
\* Domains of the model
\* ------------------------------------------------------------------------
\* ids of plp.Course rows and of plp.CourseSession rows: two tables, both
\* numbered from 1, so a course and a session can carry the same id
CourseIds  == {1, 2}
SessionIds == {1, 2}
\* timezone.now() of the pricing calls, and the datetimes around it
Nows       == {2}
Times      == {1, 3}
\* verified-mode prices of sessions (roubles)
Prices     == {100, 250}
\* EducationalModule.discount values (percent)
Discounts  == {0, 30, 100}
\* the most payments a promo code row is created for or with
MaxUsage   == 2
\* the number of customers paying with the promo code
NPayers    == 2
Payers     == 1..NPayers
\* the dates of validate calls and of active_till
Dates      == {1, 2, 3}
\* discount_percent values, in hundredths of a percent: 0, 10, 12.55, 50, 100
Percents   == {0, 1000, 1255, 5000, 10000}
\* discount_price values, in hundredths: 0 and 99.00
FixedPrices == {0, 9900}
\* product_id / session_id arguments: the id of a row, and of no row
ProductIds == {1, 2}
SessionArgs == SessionIds \cup {None}
\* the two concurrent callers of update_module_enrollment_progress, and the
\* calls each makes
Procs      == {1, 2}
MaxCalls   == 1
\* the users and module ids of enrollments
Users      == {"u1", "u2"}
ModuleIds  == {1, 2}
\* the user arguments: None, an AnonymousUser, a registered user
TheUser    == "u1"
UserArgs   == {NoUser, "anon", TheUser}

is_authenticated(user) == user \notin {NoUser, "anon"}

\* ------------------------------------------------------------------------
\* Small helpers
\* ------------------------------------------------------------------------
RECURSIVE SumSeq(_)
SumSeq(s) == IF s = <<>> THEN 0 ELSE Head(s) + SumSeq(Tail(s))

Range(s) == {s[i] : i \in DOMAIN s}

Max(S) == CHOOSE x \in S : \A y \in S : y <= x

\* ------------------------------------------------------------------------
\* Pricing engine: EducationalModule.get_price_list
\* ------------------------------------------------------------------------
\* EnrollmentReason rows of the user with session_enrollment_type.mode =
\* 'verified', as the sessions they pay for (the queryset `reasons`)
verified_reasons(for_user) ==
    IF for_user = TheUser
    THEN {r \in participants : r.mode = "verified"}
    ELSE {}

\* the loop over payment_for_course: a course is paid when one payment's
\* participant is a graduate, or its session's datetime_ends is set and
\* later than now
course_paid(for_user, now) ==
    IF for_user # NoUser /\ is_authenticated(for_user)
    THEN {c \in CourseIds :
            \E r \in verified_reasons(for_user) :
                /\ sessions[r.session].course = c
                /\ \/ r.is_graduate
                   \/ /\ sessions[r.session].datetime_ends # None
                      /\ sessions[r.session].datetime_ends > now}
    ELSE {}

\* the queryset `sessions`: sessions of the module's courses that are not
\* paid, with an end of enrollment and an enrollment start before now; the
\* trailing .exclude(id__in=course_paid) compares SESSION ids with the paid
\* COURSE ids
priced_sessions(for_user, now) ==
    {s \in SessionIds :
        /\ sessions[s].course \in Range(module.courses) \ course_paid(for_user, now)
        /\ sessions[s].datetime_end_enroll # None
        /\ sessions[s].datetime_start_enroll # None
        /\ sessions[s].datetime_start_enroll < now
        /\ s \notin course_paid(for_user, now)}

\* order_by('-datetime_end_enroll') and course_sessions[0]: for each course
\* one of its sessions with the latest end of enrollment (the database
\* orders ties as it likes)
session_for_course_choices(for_user, now) ==
    LET qs   == priced_sessions(for_user, now)
        cs   == {sessions[s].course : s \in qs}
        of(c) == {s \in qs : sessions[s].course = c}
        top(c) == {s \in of(c) :
                     sessions[s].datetime_end_enroll =
                        Max({sessions[t].datetime_end_enroll : t \in of(c)})}
    IN  {f \in [cs -> SessionIds] : \A c \in cs : f[c] \in top(c)}

\* types.get(s.id, 0): the price of the session's verified enrollment type
types_get(s) == IF sessions[s].vprice = None THEN 0 ELSE sessions[s].vprice

\* price * (1 - discount / 100.) in hundredths
whole_price_of(price, discount) == price * (100 - discount)

\* price_list with the courses that have no session left out of the list
price_list_priced_only(session_for_course) ==
    LET cs == SelectSeq(module.courses, LAMBDA c : c \in DOMAIN session_for_course)
        cl == [i \in DOMAIN cs |-> <<cs[i], types_get(session_for_course[cs[i]])>>]
        price == SumSeq([i \in DOMAIN cl |-> cl[i][2]])
    IN  [courses     |-> cl,
         price       |-> price,
         whole_price |-> whole_price_of(price, module.discount),
         discount    |-> module.discount]

\* the result dict for one choice of session_for_course
price_list(session_for_course) ==
    LET cl == [i \in DOMAIN module.courses |->
                 LET c == module.courses[i]
                 IN  <<c, IF c \in DOMAIN session_for_course
                          THEN types_get(session_for_course[c])
                          ELSE 0>>]
        price == SumSeq([i \in DOMAIN cl |-> cl[i][2]])
    IN  [courses     |-> cl,
         price       |-> price,
         whole_price |-> whole_price_of(price, module.discount),
         discount    |-> module.discount]

\* what get_price_list(for_user) can return at time now
get_price_list(for_user, now) ==
    {price_list(f) : f \in session_for_course_choices(for_user, now)}

\* ------------------------------------------------------------------------
\* EducationalModule.get_first_session_to_buy
\* ------------------------------------------------------------------------
\* enr_type.is_user_enrolled(user) of plp: the user has a verified-mode
\* payment on the session
is_user_enrolled(s, user) ==
    \E r \in verified_reasons(user) : r.session = s

\* the loop over the module's courses that are not projects; the result is
\* <<session, price>>, or <<>> for the None the code returns at its end
RECURSIVE first_session_from(_, _)
first_session_from(cs, user) ==
    IF cs = <<>> THEN <<>>
    ELSE LET course  == Head(cs)
             session == courses[course].next_session
             auth    == IF user # NoUser THEN is_authenticated(user) ELSE FALSE
         IN  IF courses[course].is_project
             THEN first_session_from(Tail(cs), user)
             ELSE IF session # None /\ sessions[session].vavail /\ auth
             THEN IF ~is_user_enrolled(session, user)
                  THEN <<session, sessions[session].vprice>>
                  ELSE first_session_from(Tail(cs), user)
             ELSE IF session # None /\ sessions[session].vavail
             THEN <<session, sessions[session].vprice>>
             ELSE first_session_from(Tail(cs), user)

get_first_session_to_buy(user) == first_session_from(module.courses, user)

\* ------------------------------------------------------------------------
\* The catalog the pricing calls read
\* ------------------------------------------------------------------------
\* CourseSession rows, each with the price of its SessionEnrollmentType of
\* mode 'verified' (vprice, None without one) and whether
\* get_verified_mode_enrollment_type() returns that type now (vavail)
SessionRows ==
    [course                : CourseIds,
     datetime_end_enroll   : {None} \cup Times,
     datetime_start_enroll : Times,
     datetime_ends         : {None} \cup Times,
     vprice                : {None} \cup Prices,
     vavail                : BOOLEAN]

\* Participant rows of the user, each with the mode of its EnrollmentReason
ParticipantRows ==
    [session : SessionIds, mode : {"honor", "verified"}, is_graduate : BOOLEAN]

\* the orders in which the module lists its courses
ModuleCourses == {<<1, 2>>, <<2>>}

ModuleRows == [id : {1}, courses : ModuleCourses, discount : Discounts]

CourseRows == [is_project : BOOLEAN, next_session : {None} \cup SessionIds]

NoCall == {}

\* The catalogs of the pricing specification.  Fields no pricing call reads
\* in a row keep one value: a session without an end of enrollment, or with
\* an enrollment start not before now, is never priced, so its vprice is
\* null; datetime_ends is read only of sessions the user has a verified
\* payment on and did not graduate from; the first-session fields (vavail,
\* is_project, next_session) are not read by get_price_list.
PricingSessionRows ==
    {r \in SessionRows :
        /\ r.datetime_ends = None
        /\ r.vavail = (r.vprice # None)
        /\ r.datetime_end_enroll = None =>
              r.datetime_start_enroll = 1 /\ r.vprice = None
        /\ r.datetime_start_enroll >= Max(Nows) => r.vprice = None}

\* what the user did on a session: nothing, an honor-mode enrollment, or a
\* verified payment (graduated, or not and the session's end null, past or
\* future)
PaymentKinds == {"none", "honor", "graduate", "ends_null", "ends_past", "ends_future"}

ends_of(kind) ==
    CASE kind = "ends_past"   -> 1
      [] kind = "ends_future" -> 3
      [] OTHER                -> None

participant_of(s, kind) ==
    [session     |-> s,
     mode        |-> IF kind = "honor" THEN "honor" ELSE "verified",
     is_graduate |-> kind = "graduate"]

PricingModuleRows ==
    {m \in ModuleRows : m.courses = <<1, 2>> \/ m.discount = 30}

\* module.courses.values_list('id') of each module, where m is the one
\* module the catalog holds
courses_of_modules(m) ==
    [mod \in ModuleIds |-> IF mod = m.id THEN Range(m.courses) ELSE {}]

InitPriceCatalog ==
    /\ module \in PricingModuleRows
    /\ moduleCourses = courses_of_modules(module)
    /\ courses = [c \in CourseIds |-> [is_project |-> FALSE, next_session |-> None]]
    /\ \E base \in [SessionIds -> PricingSessionRows],
          kind \in [SessionIds -> PaymentKinds] :
          /\ sessions = [s \in SessionIds |->
                           [base[s] EXCEPT !.datetime_ends = ends_of(kind[s])]]
          /\ participants = {participant_of(s, kind[s]) :
                                s \in {t \in SessionIds : kind[t] # "none"}}

\* a call get_price_list(for_user) at time now
GetPriceList(for_user, now) ==
    /\ \E result \in get_price_list(for_user, now) :
          plist' = {[for_user |-> for_user, now |-> now, result |-> result]}
    /\ UNCHANGED <<catVars, promoVars, enrVars, edxVars, typeVars>>

InitPromoIdle ==
    /\ promos = {}
    /\ payer = [p \in Payers |-> "idle"]
    /\ vres = NoCall
    /\ cres = NoCall

InitEnrollIdle ==
    /\ enrollments = {}
    /\ enrRes = NoCall

IdleCall ==
    [pc |-> "idle", calls |-> 0, enrollment |-> None, attempts |-> 0,
     outcome |-> {}, result |-> {}, now |-> None, data |-> <<>>,
     rec |-> None, prev |-> <<>>, merged |-> <<>>, error |-> ""]

InitEdxIdle ==
    /\ progressRecs = {}
    /\ proc = [p \in Procs |-> IdleCall]

InitTypesIdle ==
    /\ enrTypes = {}
    /\ tres = NoCall

InitPrice ==
    /\ InitPriceCatalog
    /\ plist = NoCall
    /\ InitTypesIdle
    /\ InitPromoIdle
    /\ InitEnrollIdle
    /\ InitEdxIdle

NextPrice == \E for_user \in UserArgs, now \in Nows : GetPriceList(for_user, now)

SpecPrice == InitPrice /\ [][NextPrice]_vars

\* ------------------------------------------------------------------------
\* Promo codes: PromoCode.validate
\* ------------------------------------------------------------------------
\* PRODUCTS[0][0] and PRODUCTS[1][0]
PRODUCTS == <<"course", "edmodule">>

\* the message of validate for a code that is not the product's
not_belongs(product_type) ==
    [status  |-> 1,
     message |-> IF product_type = PRODUCTS[1] THEN "not_belongs_course"
                 ELSE "not_belongs_edmodule"]

\* validate_usage with the code expiring on active_till itself
validate_usage_expires_early(self, today) ==
    IF self.used >= self.max_usage
    THEN [status |-> 1, message |-> "already_used"]
    ELSE IF today >= self.active_till
    THEN [status |-> 1, message |-> "expired"]
    ELSE [status |-> 0, message |-> "valid"]

\* the usage and expiry checks that follow the product check
validate_usage(self, today) ==
    IF self.used >= self.max_usage
    THEN [status |-> 1, message |-> "already_used"]
    ELSE IF today > self.active_till
    THEN [status |-> 1, message |-> "expired"]
    ELSE [status |-> 0, message |-> "valid"]

\* validate(product_id, product_type) on the date today.  The conditions of
\* the product check are evaluated left to right: self.edmodule.id (or
\* self.course.id) is read only when the product types differ, and raises
\* AttributeError when that foreign key is null.
validate(self, product_id, product_type, today) ==
    IF self.product_type = PRODUCTS[2] /\ self.product_type # product_type
    THEN IF self.edmodule = None THEN [raised |-> "AttributeError"]
         ELSE IF self.edmodule # product_id THEN not_belongs(product_type)
         ELSE validate_usage(self, today)
    ELSE IF self.product_type = PRODUCTS[1] /\ self.product_type # product_type
    THEN IF self.course = None THEN [raised |-> "AttributeError"]
         ELSE IF self.course # product_id THEN not_belongs(product_type)
         ELSE validate_usage(self, today)
    ELSE validate_usage(self, today)

\* ------------------------------------------------------------------------
\* Promo codes: PromoCode.calculate
\* ------------------------------------------------------------------------
\* Decimal.quantize(Decimal('.00')) of n / d, in hundredths: the default
\* context rounds half to even
quantize(n, d) ==
    LET q == n \div d
        r == n % d
    IN  IF 2 * r < d THEN q
        ELSE IF 2 * r > d THEN q + 1
        ELSE IF q % 2 = 0 THEN q ELSE q + 1

\* Decimal(price) * (1 - percent / 100), quantized, in hundredths; percent
\* is in hundredths of a percent
discounted(price, percent) == quantize(price * (10000 - percent), 100)

\* calculate_edmodule with the promo percent taken off the price the module
\* discount already reduced (compounded instead of added)
calculate_edmodule_compounded(self, price, whole_price, discount) ==
    IF self.discount_percent = None THEN [raised |-> "TypeError"]
    ELSE [status    |-> 0,
          new_price |-> quantize(whole_price * (10000 - self.discount_percent), 10000)]

\* calculate_edmodule with the non-stacking comparison inverted: the smaller
\* of the two discounts is applied
calculate_edmodule_smaller(self, price, whole_price, discount) ==
    IF self.use_with_others
    THEN IF self.discount_percent = None THEN [raised |-> "TypeError"]
         ELSE [status    |-> 0,
               new_price |-> discounted(price, self.discount_percent + 100 * discount)]
    ELSE IF self.discount_percent = None \/ 100 * discount < self.discount_percent
         THEN [status |-> 0, new_price |-> quantize(whole_price, 1)]
         ELSE [status    |-> 0,
               new_price |-> discounted(price, self.discount_percent)]

\* the edmodule branch once the price dict is known: price and whole_price
\* are the module's, or the first course's under only_first_course
calculate_edmodule(self, price, whole_price, discount) ==
    IF self.use_with_others
    THEN IF self.discount_percent = None THEN [raised |-> "TypeError"]
         ELSE [status    |-> 0,
               new_price |-> discounted(price, self.discount_percent + 100 * discount)]
    ELSE \* Decimal(...) > None is True in Python 2
         IF self.discount_percent = None \/ 100 * discount > self.discount_percent
         THEN [status |-> 0, new_price |-> quantize(whole_price, 1)]
         ELSE [status    |-> 0,
               new_price |-> discounted(price, self.discount_percent)]

\* calculate with the fixed price applied only once the referenced module
\* or session was found
calculate_lookup_first(self, product_id, only_first_course, session_id, now) ==
    IF self.product_type = PRODUCTS[2] /\ product_id # module.id
    THEN {[status |-> 1, message |-> "module_not_found"]}
    ELSE IF self.product_type = PRODUCTS[1] /\ session_id \notin SessionIds
    THEN {[status |-> 1, message |-> "course_not_found"]}
    ELSE IF self.discount_price # None /\ self.discount_price # 0
    THEN {[status |-> 0, new_price |-> self.discount_price]}
    ELSE {[raised |-> "TypeError"]}

\* what calculate(product_id, only_first_course, session_id) can return
calculate(self, product_id, only_first_course, session_id, now) ==
    IF self.discount_price # None /\ self.discount_price # 0
    THEN {[status |-> 0, new_price |-> self.discount_price]}
    ELSE IF self.product_type = PRODUCTS[2]
    THEN IF product_id # module.id
         THEN {[status |-> 1, message |-> "module_not_found"]}
         ELSE IF only_first_course
         THEN LET first == get_first_session_to_buy(NoUser)
              IN  IF first = <<>> THEN {[raised |-> "TypeError"]}
                  ELSE {calculate_edmodule(self, first[2],
                            whole_price_of(first[2], module.discount),
                            module.discount)}
         ELSE {calculate_edmodule(self, price.price, price.whole_price, price.discount) :
                  price \in get_price_list(NoUser, now)}
    ELSE IF session_id \notin SessionIds
    THEN {[status |-> 1, message |-> "course_not_found"]}
    ELSE IF ~sessions[session_id].vavail
    THEN {[raised |-> "AttributeError"]}
    ELSE IF self.discount_percent = None
    THEN {[raised |-> "TypeError"]}
    ELSE {[status    |-> 0,
           new_price |-> discounted(sessions[session_id].vprice, self.discount_percent)]}

\* ------------------------------------------------------------------------
\* Promo codes: the table and the calls on it
\* ------------------------------------------------------------------------
\* PromoCode rows; no field has a validator, and no constraint ties used to
\* max_usage or discount_percent to discount_price
PromoRows ==
    [product_type     : Range(PRODUCTS),
     course           : {None, 1},
     edmodule         : {None, 1},
     active_till      : {1, 2},
     max_usage        : 0..MaxUsage,
     used             : 0..MaxUsage,
     use_with_others  : BOOLEAN,
     discount_percent : {None} \cup Percents,
     discount_price   : {None} \cup FixedPrices]

\* the creation of the promo code (the model follows one code)
CreatePromoCode(rows) ==
    /\ promos = {}
    /\ promos' \in {{row} : row \in rows}
    /\ UNCHANGED <<catVars, plist, payer, vres, cres, enrVars, edxVars, typeVars>>

\* a customer enters the code: validate(product_id, product_type)
Validate(p, product_id, product_type, today) ==
    /\ payer[p] = "idle"
    /\ \E self \in promos :
          LET result == validate(self, product_id, product_type, today)
          IN  /\ vres' = {[product_id   |-> product_id,
                           product_type |-> product_type,
                           today        |-> today,
                           result       |-> result]}
              /\ payer' = [payer EXCEPT ![p] =
                             IF result = [status |-> 0, message |-> "valid"]
                             THEN "validated" ELSE "idle"]
    /\ UNCHANGED <<catVars, plist, promos, cres, enrVars, edxVars, typeVars>>

\* the customer's payment arrives and consumes the code: one more use
Consume(p) ==
    /\ payer[p] = "validated"
    /\ promos' = {[self EXCEPT !.used = @ + 1] : self \in promos}
    /\ payer' = [payer EXCEPT ![p] = "paid"]
    /\ UNCHANGED <<catVars, plist, vres, cres, enrVars, edxVars, typeVars>>

\* calculate(product_id, only_first_course, session_id)
Calculate(product_id, only_first_course, session_id, now) ==
    /\ \E self \in promos :
          \E result \in calculate(self, product_id, only_first_course, session_id, now) :
              cres' = {[product_id        |-> product_id,
                        only_first_course |-> only_first_course,
                        session_id        |-> session_id,
                        result            |-> result]}
    /\ UNCHANGED <<catVars, plist, promos, payer, vres, enrVars, edxVars, typeVars>>

\* ---- the usage specification: one code, validated and paid with by the
\* payers in any interleaving.  The code is created within its limit;
\* validate reads no discount field, so the rows created here keep one
\* value in them.
UsagePromoRows ==
    {r \in PromoRows :
        /\ r.used <= r.max_usage
        /\ r.use_with_others
        /\ r.discount_percent = 1000
        /\ r.discount_price = None}

ListedSession(c, price) ==
    [course |-> c, datetime_end_enroll |-> 3, datetime_start_enroll |-> 1,
     datetime_ends |-> None, vprice |-> price, vavail |-> TRUE]

InitPromoCatalog ==
    /\ module = [id |-> 1, courses |-> <<1, 2>>, discount |-> 30]
    /\ moduleCourses = courses_of_modules(module)
    /\ courses = [c \in CourseIds |-> [is_project |-> FALSE, next_session |-> c]]
    /\ sessions = [s \in SessionIds |-> ListedSession(s, 100 * s)]
    /\ participants = {}

InitPromo ==
    /\ InitPromoCatalog
    /\ plist = NoCall
    /\ InitTypesIdle
    /\ InitPromoIdle
    /\ InitEnrollIdle
    /\ InitEdxIdle

NextPromo ==
    \/ CreatePromoCode(UsagePromoRows)
    \/ \E p \in Payers, product_id \in ProductIds,
          product_type \in Range(PRODUCTS), today \in Dates :
          Validate(p, product_id, product_type, today)
    \/ \E p \in Payers : Consume(p)
    \/ \E product_id \in ProductIds, now \in Nows :
          Calculate(product_id, FALSE, 1, now)

SpecPromo == InitPromo /\ [][NextPromo]_vars

\* ---- the calculation specification: calculate on every kind of code over
\* a range of catalogs.  calculate reads neither the code's product
\* references nor its usage fields, so the rows created here keep one value
\* in them.
CalcPromoRows ==
    {r \in PromoRows :
        /\ r.course = 1 /\ r.edmodule = 1
        /\ r.active_till = 2 /\ r.max_usage = MaxUsage /\ r.used = 0}

\* session s of course s: without a verified type, with one that can be
\* bought now, or with one get_verified_mode_enrollment_type() does not
\* return now
SessionKinds == {"unpriced", "priced", "closed"}

calc_session(s, kind) ==
    [course |-> s, datetime_end_enroll |-> 3, datetime_start_enroll |-> 1,
     datetime_ends |-> None,
     vprice |-> IF kind = "unpriced" THEN None ELSE IF s = 1 THEN 100 ELSE 250,
     vavail |-> kind = "priced"]

InitCalcCatalog ==
    /\ module \in {m \in ModuleRows : m.courses = <<1, 2>>}
    /\ moduleCourses = courses_of_modules(module)
    /\ courses \in {cr \in [CourseIds -> CourseRows] :
                      /\ cr[1].next_session \in {None, 1}
                      /\ cr[2] = [is_project |-> FALSE, next_session |-> 2]}
    /\ \E kind \in [SessionIds -> SessionKinds] :
          /\ kind[2] # "closed"
          /\ sessions = [s \in SessionIds |-> calc_session(s, kind[s])]
    /\ participants = {}

InitCalc ==
    /\ InitCalcCatalog
    /\ plist = NoCall
    /\ InitTypesIdle
    /\ InitPromoIdle
    /\ InitEnrollIdle
    /\ InitEdxIdle

NextCalc ==
    \/ CreatePromoCode(CalcPromoRows)
    \/ \E product_id \in ProductIds, only_first_course \in BOOLEAN,
          session_id \in SessionArgs, now \in Nows :
          Calculate(product_id, only_first_course, session_id, now)

SpecCalc == InitCalc /\ [][NextCalc]_vars

\* ------------------------------------------------------------------------
\* Module enrollments: EducationalModuleEnrollment
\* ------------------------------------------------------------------------
\* unique_together = ('user', 'module'): the rows an INSERT of (user,
\* module) collides with
same_pair(user, mod) ==
    {e \in enrollments : e.user = user /\ e.module = mod}

\* an INSERT that the table's unique index does not check
insert_unchecked(user, mod, is_graduated) ==
    /\ enrollments' = enrollments \cup
          {[id |-> Cardinality(enrollments) + 1, user |-> user, module |-> mod,
            is_paid |-> FALSE, is_graduated |-> is_graduated, is_active |-> FALSE]}
    /\ enrRes' = {[user |-> user, module |-> mod, outcome |-> "created"]}

\* the INSERT of a row: the unique index on (user, module) rejects it with
\* IntegrityError when the pair has a row, and the table stays as it is;
\* ids are handed out in the order of creation
insert_enrollment(user, mod, is_graduated) ==
    IF same_pair(user, mod) # {}
    THEN /\ enrollments' = enrollments
         /\ enrRes' = {[user |-> user, module |-> mod, outcome |-> "IntegrityError"]}
    ELSE /\ enrollments' = enrollments \cup
                {[id |-> Cardinality(enrollments) + 1, user |-> user, module |-> mod,
                  is_paid |-> FALSE, is_graduated |-> is_graduated, is_active |-> FALSE]}
         /\ enrRes' = {[user |-> user, module |-> mod, outcome |-> "created"]}

\* EducationalModuleEnrollment.objects.create(user=..., module=..., ...)
CreateEnrollment(user, mod, is_graduated) ==
    /\ insert_enrollment(user, mod, is_graduated)
    /\ UNCHANGED <<catVars, plist, promoVars, edxVars, typeVars>>

InitEnroll ==
    /\ InitPromoCatalog
    /\ plist = NoCall
    /\ InitTypesIdle
    /\ InitPromoIdle
    /\ InitEnrollIdle
    /\ InitEdxIdle

NextEnroll ==
    \E user \in Users, mod \in ModuleIds, is_graduated \in BOOLEAN :
        CreateEnrollment(user, mod, is_graduated)

SpecEnroll == InitEnroll /\ [][NextEnroll]_vars

\* ------------------------------------------------------------------------
\* Module enrollments: update_modules_graduation
\* ------------------------------------------------------------------------
\* what a session of the "my courses" context carries: no certificate_data
\* attribute, an empty one, one that reports passed false or passed true
CertificateData == {"missing", "empty", "failed", "passed"}

\* getattr(s, 'certificate_data', None) and s.certificate_data.get('passed')
reports_passed(s) == s.certificate_data = "passed"

\* the course ids of the sessions that report passed
passed_courses(sess) == {s.course_id : s \in {t \in sess : reports_passed(t)}}

\* ids of the user's ungraduated enrollments whose module courses are all
\* passed
to_update(user, sess) ==
    {enr.id : enr \in {e \in enrollments :
                         /\ e.user = user
                         /\ ~e.is_graduated
                         /\ moduleCourses[e.module] \subseteq passed_courses(sess)}}

\* graduating without the filters on the user
graduating_any_user(user, sess) ==
    {e \in enrollments :
        ~e.is_graduated /\ moduleCourses[e.module] \subseteq passed_courses(sess)}

\* filter(user=user, id__in=to_update)
graduating(user, sess) ==
    {e \in enrollments : e.user = user /\ e.id \in to_update(user, sess)}

\* update_modules_graduation(user, sessions)
UpdateModulesGraduation(user, sess) ==
    /\ enrollments' = {IF e \in graduating(user, sess)
                       THEN [e EXCEPT !.is_graduated = TRUE] ELSE e : e \in enrollments}
    /\ enrRes' = {[user |-> user, sessions |-> sess, outcome |-> "updated"]}
    /\ UNCHANGED <<catVars, plist, promoVars, edxVars, typeVars>>

\* the session lists passed in: sessions of courses 1 and 2 with and
\* without a passed certificate, two sessions of one course among them
SessionLists ==
    {{},
     {[id |-> 1, course_id |-> 1, certificate_data |-> "passed"]},
     {[id |-> 2, course_id |-> 2, certificate_data |-> "passed"]},
     {[id |-> 1, course_id |-> 1, certificate_data |-> "passed"],
      [id |-> 2, course_id |-> 2, certificate_data |-> "passed"]},
     {[id |-> 1, course_id |-> 1, certificate_data |-> "passed"],
      [id |-> 2, course_id |-> 2, certificate_data |-> "failed"]},
     {[id |-> 1, course_id |-> 1, certificate_data |-> "passed"],
      [id |-> 2, course_id |-> 2, certificate_data |-> "missing"]},
     {[id |-> 1, course_id |-> 1, certificate_data |-> "empty"],
      [id |-> 2, course_id |-> 2, certificate_data |-> "failed"],
      [id |-> 3, course_id |-> 2, certificate_data |-> "passed"]}}

\* the course sets of the two modules
GradModuleCourses ==
    {[mod \in ModuleIds |-> IF mod = 1 THEN {1, 2} ELSE {2}],
     [mod \in ModuleIds |-> IF mod = 1 THEN {1} ELSE {}]}

InitGrad ==
    /\ module = [id |-> 1, courses |-> <<1, 2>>, discount |-> 30]
    /\ courses = [c \in CourseIds |-> [is_project |-> FALSE, next_session |-> c]]
    /\ sessions = [s \in SessionIds |-> ListedSession(s, 100 * s)]
    /\ participants = {}
    /\ moduleCourses \in GradModuleCourses
    /\ plist = NoCall
    /\ InitTypesIdle
    /\ InitPromoIdle
    /\ InitEnrollIdle
    /\ InitEdxIdle

NextGrad ==
    \/ \E user \in Users, mod \in ModuleIds, is_graduated \in BOOLEAN :
          CreateEnrollment(user, mod, is_graduated)
    \/ \E user \in Users, sess \in SessionLists :
          UpdateModulesGraduation(user, sess)

SpecGrad == InitGrad /\ [][NextGrad]_vars

\* ------------------------------------------------------------------------
\* Progress sync client: EDXEnrollmentExtension.request
\* ------------------------------------------------------------------------
\* what self.session.request can raise, with the classes each is an
\* instance of (requests.exceptions; RequestException derives from IOError)
TransportExceptions == {"ReadTimeout", "ConnectTimeout", "ConnectionError", "IOError"}

isinstance(exc, cls) ==
    cls \in (CASE exc = "ReadTimeout"     -> {"ReadTimeout", "Timeout", "RequestException", "IOError"}
               [] exc = "ConnectTimeout"  -> {"ConnectTimeout", "ConnectionError", "Timeout",
                                              "RequestException", "IOError"}
               [] exc = "ConnectionError" -> {"ConnectionError", "RequestException", "IOError"}
               [] OTHER                   -> {exc})

\* the status codes of the responses
Statuses == {200, 201, 302, 404, 499, 500, 503}

\* the course keys of a progress blob and the values the API reports
CourseKeys == {"k1", "k2"}
Grades     == {5, 7}
\* the times of the calls
StampTimes == {1, 2}

\* the JSON bodies of the 200 responses: course key -> progress dict
Bodies ==
    {<<>>,
     [k1 |-> [grade |-> 5]],
     [k2 |-> [grade |-> 7]],
     [k1 |-> [grade |-> 7], k2 |-> [grade |-> 5]]}

\* what one self.session.request call does: it raises, or a response comes
TransportOutcomes ==
    {[exc |-> e] : e \in TransportExceptions}
    \cup {[status |-> st, body |-> <<>>] : st \in Statuses \ {200}}
    \cup {[status |-> 200, body |-> b] : b \in Bodies}

\* a client that tries a second time after a failed attempt
retry_once(outcome, attempts) == attempts < 2

\* whether request calls self.session.request again after an attempt that
\* failed: the except clauses and status checks raise at once
retry(outcome, attempts) == FALSE

\* request with the clause for IOError placed before the one for Timeout
request_io_first(outcome) ==
    IF "exc" \in DOMAIN outcome
    THEN IF isinstance(outcome.exc, "IOError") THEN [raised |-> "EDXNotAvailable"]
         ELSE IF isinstance(outcome.exc, "Timeout") THEN [raised |-> "EDXTimeoutError"]
         ELSE [raised |-> outcome.exc]
    ELSE IF 500 <= outcome.status THEN [raised |-> "EDXNotAvailable"]
    ELSE IF outcome.status # 200 THEN [raised |-> "EDXCommunicationError"]
    ELSE [returned |-> outcome.status]

\* the except clauses in their order, then the status checks
request(outcome) ==
    IF "exc" \in DOMAIN outcome
    THEN IF isinstance(outcome.exc, "Timeout") THEN [raised |-> "EDXTimeoutError"]
         ELSE IF isinstance(outcome.exc, "IOError") THEN [raised |-> "EDXNotAvailable"]
         ELSE [raised |-> outcome.exc]
    ELSE IF 500 <= outcome.status THEN [raised |-> "EDXNotAvailable"]
    ELSE IF outcome.status # 200 THEN [raised |-> "EDXCommunicationError"]
    ELSE [returned |-> outcome.status]

\* ------------------------------------------------------------------------
\* Progress sync: update_module_enrollment_progress
\* ------------------------------------------------------------------------
\* an except clause that names EDXTimeoutError alone
is_EDXTimeoutError(exc) == exc = "EDXTimeoutError"

\* except EDXEnrollmentError: EDXTimeoutError derives from it in utils.py,
\* EDXNotAvailable and EDXCommunicationError in plp.utils.edx_enrollment
is_EDXEnrollmentError(exc) ==
    exc \in {"EDXTimeoutError", "EDXNotAvailable", "EDXCommunicationError"}

\* for k, v in data.items(): v['updated_at'] = now
stamp(body, now) ==
    [k \in DOMAIN body |-> [grade |-> body[k].grade, updated_at |-> now]]

\* the blob replaced by the response instead of updated with it
replace_by(p, data) == data

\* p.update(data)
update(p, data) ==
    [k \in DOMAIN p \cup DOMAIN data |-> IF k \in DOMAIN data THEN data[k] ELSE p[k]]

\* progress.progress or {}
progress_or_empty(rec) == IF rec.is_null THEN <<>> ELSE rec.progress

\* EducationalModuleProgress rows of an enrollment (a OneToOneField)
progress_of(e) == {rec \in progressRecs : rec.enrollment = e}

\* the call starts; the course ids it asks for do not decide what follows
\* (the response does)
Call(p, e) ==
    /\ proc[p].pc = "idle"
    /\ proc[p].calls < MaxCalls
    /\ proc' = [proc EXCEPT ![p] = [IdleCall EXCEPT !.pc = "request",
                                                    !.calls = proc[p].calls,
                                                    !.enrollment = e]]
    /\ UNCHANGED <<catVars, plist, promoVars, enrVars, progressRecs, typeVars>>

\* get_courses_progress(...): one self.session.request, then what request
\* makes of it; a classified error ends the call in the except clause of
\* update_module_enrollment_progress, a response is parsed and stamped
Request(p, outcome, now) ==
    /\ proc[p].pc = "request"
    /\ LET attempts == proc[p].attempts + 1
           result   == request(outcome)
       IN  proc' = [proc EXCEPT ![p] =
              IF retry(outcome, attempts) /\ "raised" \in DOMAIN result
              THEN [@ EXCEPT !.attempts = attempts]
              ELSE IF "raised" \in DOMAIN result
              THEN [@ EXCEPT !.attempts = attempts,
                             !.outcome = {outcome}, !.result = {result},
                             !.error = IF is_EDXEnrollmentError(result.raised)
                                       THEN "" ELSE result.raised,
                             !.pc = IF is_EDXEnrollmentError(result.raised)
                                    THEN "done" ELSE "raised"]
              ELSE [@ EXCEPT !.attempts = attempts,
                             !.outcome = {outcome}, !.result = {result},
                             !.now = now,
                             !.data = stamp(outcome.body, now),
                             !.pc = "get"]]
    /\ UNCHANGED <<catVars, plist, promoVars, enrVars, progressRecs, typeVars>>

\* EducationalModuleProgress.objects.get(enrollment=enrollment), and on a
\* row the merge into its blob; DoesNotExist leads to the create
Get(p) ==
    /\ proc[p].pc = "get"
    /\ IF progress_of(proc[p].enrollment) = {}
       THEN proc' = [proc EXCEPT ![p].pc = "create"]
       ELSE \E rec \in progress_of(proc[p].enrollment) :
               proc' = [proc EXCEPT
                          ![p].rec = rec.id,
                          ![p].prev = progress_or_empty(rec),
                          ![p].merged = update(progress_or_empty(rec), proc[p].data),
                          ![p].pc = "save"]
    /\ UNCHANGED <<catVars, plist, promoVars, enrVars, progressRecs, typeVars>>

\* progress.save(): the row is written with the merged blob
Save(p) ==
    /\ proc[p].pc = "save"
    /\ progressRecs' =
          {IF rec.id = proc[p].rec
           THEN [rec EXCEPT !.is_null = FALSE, !.progress = proc[p].merged]
           ELSE rec : rec \in progressRecs}
    /\ proc' = [proc EXCEPT ![p].pc = "done"]
    /\ UNCHANGED <<catVars, plist, promoVars, enrVars, typeVars>>

\* EducationalModuleProgress.objects.create(enrollment=..., progress=data):
\* the unique index of the OneToOneField refuses a second row of the
\* enrollment with IntegrityError, which leaves the function
Create(p) ==
    /\ proc[p].pc = "create"
    /\ IF progress_of(proc[p].enrollment) # {}
       THEN /\ progressRecs' = progressRecs
            /\ proc' = [proc EXCEPT ![p].pc = "raised",
                                    ![p].error = "IntegrityError"]
       ELSE /\ progressRecs' = progressRecs \cup
                  {[id |-> Cardinality(progressRecs) + 1,
                    enrollment |-> proc[p].enrollment,
                    is_null |-> FALSE, progress |-> proc[p].data]}
            /\ proc' = [proc EXCEPT ![p].pc = "done"]
    /\ UNCHANGED <<catVars, plist, promoVars, enrVars, typeVars>>

\* the call is over (it returned, or an exception left it)
Return(p) ==
    /\ proc[p].pc \in {"done", "raised"}
    /\ proc' = [proc EXCEPT ![p] = [IdleCall EXCEPT !.calls = proc[p].calls + 1]]
    /\ UNCHANGED <<catVars, plist, promoVars, enrVars, progressRecs, typeVars>>

\* the enrollment whose progress is synchronised, and what is stored for it
\* before the calls: no row, a row with a null blob, a row with a blob
EdxEnrollment ==
    [id |-> 1, user |-> "u1", module |-> 1,
     is_paid |-> FALSE, is_graduated |-> FALSE, is_active |-> TRUE]

InitialProgress ==
    {{},
     {[id |-> 1, enrollment |-> 1, is_null |-> TRUE, progress |-> <<>>]},
     {[id |-> 1, enrollment |-> 1, is_null |-> FALSE,
       progress |-> [k1 |-> [grade |-> 5, updated_at |-> 0]]]}}

InitEdx ==
    /\ InitPromoCatalog
    /\ plist = NoCall
    /\ InitTypesIdle
    /\ InitPromoIdle
    /\ enrollments = {EdxEnrollment}
    /\ enrRes = NoCall
    /\ progressRecs \in InitialProgress
    /\ proc = [p \in Procs |-> IdleCall]

NextEdx ==
    \/ \E p \in Procs : Call(p, EdxEnrollment.id)
    \/ \E p \in Procs, outcome \in TransportOutcomes, now \in StampTimes :
          Request(p, outcome, now)
    \/ \E p \in Procs : Get(p)
    \/ \E p \in Procs : Save(p)
    \/ \E p \in Procs : Create(p)
    \/ \E p \in Procs : Return(p)

SpecEdx == InitEdx /\ [][NextEdx]_vars

\* ------------------------------------------------------------------------
\* Enrollment types of modules: EducationalModuleEnrollmentType
\* ------------------------------------------------------------------------
\* the modes a type can have
EDX_MODES == {"audit", "honor", "verified"}

\* mode=None, the default of get_available_enrollment_types
NoMode == ""

\* instants (buy_start and timezone.now() are datetimes) and the dates they
\* fall on (buy_expiration is a date): two instants to a day
Instants == {1, 2, 3, 4}
ClockReads == {2, 3, 4}

\* the date a datetime is compared as against a DateField
date_of(t) == t \div 2

ExpirationDates == {date_of(t) : t \in Instants}

\* get_available_enrollment_types with the purchase window left out
get_available_enrollment_types_unboxed(self, mode, exclude_expired, active, now_exclude, now_filter) ==
    {t \in enrTypes :
        /\ t.module = self
        /\ active => t.active
        /\ mode # NoMode => t.mode = mode}

\* get_available_enrollment_types(mode, exclude_expired, active); the two
\* timezone.now() calls read the clock one after the other.  exclude() keeps
\* the rows whose buy_expiration is null.
get_available_enrollment_types(self, mode, exclude_expired, active, now_exclude, now_filter) ==
    LET qs     == {t \in enrTypes : t.module = self}
        qs_act == IF active THEN {t \in qs : t.active} ELSE qs
        qs_mod == IF mode # NoMode THEN {t \in qs_act : t.mode = mode} ELSE qs_act
    IN  IF exclude_expired /\ mode = "verified"
        THEN {t \in qs_mod :
                /\ ~(t.buy_expiration # None /\ t.buy_expiration < date_of(now_exclude))
                /\ (t.buy_start = None \/ t.buy_start < now_filter)}
        ELSE qs_mod

\* QuerySet.first(): the row with the least primary key, or None (no row)
first(qs) == {t \in qs : \A u \in qs : t.id <= u.id}

get_verified_mode_enrollment_type(self, now_exclude, now_filter) ==
    first(get_available_enrollment_types(self, "verified", TRUE, TRUE,
                                         now_exclude, now_filter))

\* a call of get_available_enrollment_types
GetAvailableEnrollmentTypes(self, mode, exclude_expired, active, now_exclude, now_filter) ==
    /\ now_exclude <= now_filter
    /\ tres' = {[method          |-> "get_available_enrollment_types",
                 module          |-> self,
                 mode            |-> mode,
                 exclude_expired |-> exclude_expired,
                 active          |-> active,
                 now_exclude     |-> now_exclude,
                 now_filter      |-> now_filter,
                 result          |-> get_available_enrollment_types(
                                        self, mode, exclude_expired, active,
                                        now_exclude, now_filter)]}
    /\ UNCHANGED <<catVars, plist, promoVars, enrVars, edxVars, enrTypes>>

\* a call of get_verified_mode_enrollment_type
GetVerifiedModeEnrollmentType(self, now_exclude, now_filter) ==
    /\ now_exclude <= now_filter
    /\ tres' = {[method          |-> "get_verified_mode_enrollment_type",
                 module          |-> self,
                 mode            |-> "verified",
                 exclude_expired |-> TRUE,
                 active          |-> TRUE,
                 now_exclude     |-> now_exclude,
                 now_filter      |-> now_filter,
                 result          |-> get_verified_mode_enrollment_type(
                                        self, now_exclude, now_filter)]}
    /\ UNCHANGED <<catVars, plist, promoVars, enrVars, edxVars, enrTypes>>

\* the table: module 1 has an honor type past its expiration date, module 2
\* a verified type without a window, and module 1 has no verified type or
\* one with any window (unique_together allows one type per module and mode)
WindowedTypes ==
    {[id |-> 1, module |-> 1, active |-> active, mode |-> "verified",
      buy_start |-> buy_start, buy_expiration |-> buy_expiration, price |-> 250] :
        active \in BOOLEAN,
        buy_start \in {None} \cup Instants,
        buy_expiration \in {None} \cup ExpirationDates}

OtherTypes ==
    {[id |-> 2, module |-> 1, active |-> TRUE, mode |-> "honor",
      buy_start |-> None, buy_expiration |-> 0, price |-> 0],
     [id |-> 3, module |-> 2, active |-> TRUE, mode |-> "verified",
      buy_start |-> None, buy_expiration |-> None, price |-> 100]}

InitTypes ==
    /\ InitPromoCatalog
    /\ plist = NoCall
    /\ InitPromoIdle
    /\ InitEnrollIdle
    /\ InitEdxIdle
    /\ enrTypes \in {OtherTypes} \cup {OtherTypes \cup {t} : t \in WindowedTypes}
    /\ tres = NoCall

NextTypes ==
    \/ \E self \in ModuleIds, mode \in {NoMode, "honor", "verified"},
          exclude_expired \in BOOLEAN, active \in BOOLEAN,
          now_exclude \in ClockReads, now_filter \in ClockReads :
          GetAvailableEnrollmentTypes(self, mode, exclude_expired, active,
                                      now_exclude, now_filter)
    \/ \E self \in ModuleIds, now_exclude \in ClockReads, now_filter \in ClockReads :
          GetVerifiedModeEnrollmentType(self, now_exclude, now_filter)

SpecTypes == InitTypes /\ [][NextTypes]_vars

\* ========================================================================
\* Properties of the pricing engine
\* ========================================================================
\* the sessions of course c one can enroll on at time now: an end of
\* enrollment is set and the enrollment start is before now
open_sessions(c, now) ==
    {s \in SessionIds :
        /\ sessions[s].course = c
        /\ sessions[s].datetime_end_enroll # None
        /\ sessions[s].datetime_start_enroll # None
        /\ sessions[s].datetime_start_enroll < now}

\* the sessions whose price the course takes: the open ones with the latest
\* end of enrollment
latest_open_sessions(c, now) ==
    {s \in open_sessions(c, now) :
        \A t \in open_sessions(c, now) :
            sessions[t].datetime_end_enroll <= sessions[s].datetime_end_enroll}

has_price(s) == sessions[s].vprice # None /\ sessions[s].vprice # 0

\* the user has a verified-mode payment on a session of course c whose
\* participant is a graduate or whose end is set and in the future
paid_by(user, c, now) ==
    /\ user = TheUser
    /\ \E r \in participants :
          /\ r.mode = "verified"
          /\ sessions[r.session].course = c
          /\ \/ r.is_graduate
             \/ /\ sessions[r.session].datetime_ends # None
                /\ sessions[r.session].datetime_ends > now

\* C8: in the result of get_price_list(for_user) a course of the module is
\* priced 0 exactly when it has no open priced session or the user paid for
\* it (verified mode, graduated or the paid session still running); for
\* for_user None or anonymous no payment excludes a course.
C8_PaidCourseExclusion ==
    \A call \in plist :
        \A i \in DOMAIN call.result.courses :
            LET c     == call.result.courses[i][1]
                price == call.result.courses[i][2]
                paid  == is_authenticated(call.for_user)
                         /\ paid_by(call.for_user, c, call.now)
                top   == latest_open_sessions(c, call.now)
            IN  /\ price = 0 => (paid \/ top = {} \/ (\E s \in top : ~has_price(s)))
                /\ price # 0 => (~paid /\ (\E s \in top : has_price(s)))

\* C9: get_price_list lists every course of the module exactly once, in the
\* module's order, paid and session-less courses at price 0; price is the
\* sum of the listed prices, discount the module's discount, whole_price is
\* price * (1 - discount / 100) (in hundredths), and with a discount within
\* 0..100 it lies between 0 and price.
C9_PriceAggregation ==
    \A call \in plist :
        LET r == call.result
        IN  /\ [i \in DOMAIN r.courses |-> r.courses[i][1]] = module.courses
            /\ \A i \in DOMAIN r.courses :
                  (\/ r.courses[i][1] \in course_paid(call.for_user, call.now)
                   \/ open_sessions(r.courses[i][1], call.now) = {})
                  => r.courses[i][2] = 0
            /\ r.price = SumSeq([i \in DOMAIN r.courses |-> r.courses[i][2]])
            /\ r.discount = module.discount
            /\ 100 * r.whole_price = r.price * (100 - r.discount) * 100
            /\ r.discount \in 0..100 =>
                  (0 <= r.whole_price /\ r.whole_price <= 100 * r.price)

\* a call for the user that lists a paid course at 0 beside a priced one,
\* under a module discount
C9_Witness ==
    \E call \in plist :
        /\ call.for_user = TheUser
        /\ Len(call.result.courses) = 2
        /\ \E i \in DOMAIN call.result.courses :
              /\ call.result.courses[i][1] \in course_paid(call.for_user, call.now)
              /\ call.result.courses[i][2] = 0
        /\ call.result.price > 0
        /\ call.result.discount = 30
        /\ call.result.whole_price = 70 * call.result.price

\* ========================================================================
\* Properties of promo codes
\* ========================================================================
\* C1: the usage counter of a promo code never exceeds its limit, whatever
\* the interleaving of validate and calculate calls and of payments that
\* consume the code after a successful validate.
C1_UsageWithinLimit ==
    \A self \in promos : self.used <= self.max_usage

\* C2: no promo code has both discount_percent and discount_price set, and
\* a price calculate returns comes from exactly one of the two: it is the
\* fixed price of a code that has one, and the percent discount of a code
\* that has a percent.
C2_MutuallyExclusive ==
    \A self \in promos :
        /\ ~(self.discount_percent # None /\ self.discount_price # None)
        /\ \A call \in cres :
              ("status" \in DOMAIN call.result /\ call.result.status = 0) =>
                 \/ /\ self.discount_price # None
                    /\ call.result.new_price = self.discount_price
                 \/ /\ self.discount_price = None
                    /\ self.discount_percent # None

\* the calls of calculate that C10 is about: a percent code (no fixed
\* price) for modules, stacking, called for the module that exists, and
\* under only_first_course with a first session to buy
stacking_call(self, call) ==
    /\ self.product_type = PRODUCTS[2]
    /\ self.discount_percent # None
    /\ self.discount_price = None
    /\ self.use_with_others
    /\ call.product_id = module.id
    /\ call.only_first_course => get_first_session_to_buy(NoUser) # <<>>

\* the prices course c can be listed at to a buyer who paid nothing: that
\* of the verified type of an open session with the latest end of
\* enrollment, 0 without such a session or type
course_prices(c) ==
    IF latest_open_sessions(c, Max(Nows)) = {} THEN {0}
    ELSE {IF sessions[s].vprice = None THEN 0 ELSE sessions[s].vprice :
             s \in latest_open_sessions(c, Max(Nows))}

\* the base prices of a call: the first buyable course's price under
\* only_first_course, else the module's undiscounted price
base_prices(call) ==
    IF call.only_first_course
    THEN {get_first_session_to_buy(NoUser)[2]}
    ELSE {SumSeq(h) :
             h \in {g \in [DOMAIN module.courses -> {0} \cup Prices] :
                      \A i \in DOMAIN module.courses :
                         g[i] \in course_prices(module.courses[i])}}

\* C10 as stated: the stacked price is exactly
\* base * (1 - (discount_percent + module discount) / 100).
C10_StackingExact ==
    \A self \in promos : \A call \in cres :
        stacking_call(self, call) =>
            /\ "status" \in DOMAIN call.result
            /\ call.result.status = 0
            /\ \E base \in base_prices(call) :
                  100 * call.result.new_price =
                     base * (10000 - (self.discount_percent + 100 * module.discount))

\* C10 (amended): the stacked price is base * (1 - (discount_percent +
\* module discount) / 100) rounded to two decimal places, halves to the
\* even hundredth; the module discount enters once, added to the percent.
C10_StackingRounded ==
    \A self \in promos : \A call \in cres :
        stacking_call(self, call) =>
            /\ "status" \in DOMAIN call.result
            /\ call.result.status = 0
            /\ \E base \in base_prices(call) :
                  LET exact == base * (10000 - (self.discount_percent
                                                + 100 * module.discount))
                      err   == 100 * call.result.new_price - exact
                  IN  /\ -50 <= err /\ err <= 50
                      /\ err \in {-50, 50} => call.result.new_price % 2 = 0

\* a stacking call on a module with a discount whose result had to be
\* rounded
C10_Witness ==
    \E self \in promos : \E call \in cres :
        /\ stacking_call(self, call)
        /\ ~call.only_first_course
        /\ module.discount = 30
        /\ self.discount_percent = 1255
        /\ call.result.status = 0
        /\ call.result.new_price > 0
        /\ \A base \in base_prices(call) :
              100 * call.result.new_price #
                 base * (10000 - (self.discount_percent + 100 * module.discount))

\* the calls of calculate that C11 is about: a percent code (no fixed
\* price) for modules, not stacking, called for the module that exists, and
\* under only_first_course with a first session to buy
non_stacking_call(self, call) ==
    /\ self.product_type = PRODUCTS[2]
    /\ self.discount_percent # None
    /\ self.discount_price = None
    /\ ~self.use_with_others
    /\ call.product_id = module.id
    /\ call.only_first_course => get_first_session_to_buy(NoUser) # <<>>

\* the larger of the module discount and the code's percent, in hundredths
\* of a percent
larger_discount(self) == Max({100 * module.discount, self.discount_percent})

\* C11 as stated: without stacking the price is exactly
\* base * (1 - max(module discount, discount_percent) / 100).
C11_NonStackingExact ==
    \A self \in promos : \A call \in cres :
        non_stacking_call(self, call) =>
            /\ "status" \in DOMAIN call.result
            /\ call.result.status = 0
            /\ \E base \in base_prices(call) :
                  100 * call.result.new_price = base * (10000 - larger_discount(self))

\* C11 (amended): without stacking the price is base * (1 - max(module
\* discount, discount_percent) / 100) rounded to two decimal places, halves
\* to the even hundredth; it exceeds neither the price with the module
\* discount alone nor the price with the promo percent alone by more than
\* that rounding.
C11_NonStackingRounded ==
    \A self \in promos : \A call \in cres :
        non_stacking_call(self, call) =>
            /\ "status" \in DOMAIN call.result
            /\ call.result.status = 0
            /\ \E base \in base_prices(call) :
                  LET exact == base * (10000 - larger_discount(self))
                      err   == 100 * call.result.new_price - exact
                  IN  /\ -50 <= err /\ err <= 50
                      /\ err \in {-50, 50} => call.result.new_price % 2 = 0
                      /\ 100 * call.result.new_price
                            <= base * (10000 - 100 * module.discount) + 50
                      /\ 100 * call.result.new_price
                            <= base * (10000 - self.discount_percent) + 50

\* a non-stacking call whose larger discount is the code's percent and
\* whose result had to be rounded
C11_Witness ==
    \E self \in promos : \E call \in cres :
        /\ non_stacking_call(self, call)
        /\ ~call.only_first_course
        /\ self.discount_percent = 1255
        /\ larger_discount(self) = 1255
        /\ call.result.status = 0
        /\ call.result.new_price > 0
        /\ \A base \in base_prices(call) :
              100 * call.result.new_price # base * (10000 - 1255)

\* the promo code belongs to the product: its product type is the given
\* one and the course or module it references is the given one
belongs(self, product_id, product_type) ==
    /\ self.product_type = product_type
    /\ IF product_type = PRODUCTS[2] THEN self.edmodule = product_id
       ELSE self.course = product_id

\* the 'does not belong' answers of validate
NotBelongsAnswers ==
    {[status |-> 1, message |-> m] : m \in {"not_belongs_course", "not_belongs_edmodule"}}

\* the code references a product of its own type
references_product(self) ==
    IF self.product_type = PRODUCTS[2] THEN self.edmodule # None
    ELSE self.course # None

\* C12: for a code that references its product, validate answers 'does not
\* belong' exactly when the code does not belong to the product it is
\* validated for: when the product types differ or the referenced course
\* or module is another one, and for no product the code belongs to.
C12_NotBelongsRejected ==
    \A self \in promos : \A call \in vres :
        references_product(self) =>
            ((call.result \in NotBelongsAnswers)
                <=> ~belongs(self, call.product_id, call.product_type))

\* a step that is a validate call: it records its answer, or moves a payer
\* past a successful validation
validate_step ==
    \/ vres' # vres
    \/ \E p \in Payers : payer[p] = "idle" /\ payer'[p] = "validated"

\* the call got past the product check: it neither raised in it nor
\* answered 'does not belong'
passed_product_check(call) ==
    /\ "status" \in DOMAIN call.result
    /\ call.result \notin NotBelongsAnswers

\* C13: a validate call that passes the product check answers status 0
\* exactly when used < max_usage and the date is not after active_till
\* (valid on active_till itself), and status 1 otherwise, with 'already
\* used' ahead of 'expired'; the call leaves every field of the code as it
\* was.
C13_UsageAndExpiry ==
    [][validate_step =>
          /\ promos' = promos
          /\ \A self \in promos : \A call \in vres' :
                passed_product_check(call) =>
                    /\ (call.result.status = 0)
                          <=> (self.used < self.max_usage /\ call.today <= self.active_till)
                    /\ call.result.status \in {0, 1}
                    /\ self.used >= self.max_usage
                          => call.result.message = "already_used"
                    /\ (self.used < self.max_usage /\ call.today > self.active_till)
                          => call.result.message = "expired"]_vars

\* a code with one use behind it and one left was found valid on its last
\* day
C13_Witness ==
    \E self \in promos : \E call \in vres :
        /\ call.result = [status |-> 0, message |-> "valid"]
        /\ call.today = self.active_till
        /\ self.used < self.max_usage
        /\ self.used > 0

\* the calls of calculate that C15 is about: a percent code (no fixed
\* price) for modules, stacking or not, called for the module that exists,
\* and under only_first_course with a first session to buy
percent_call(self, call) ==
    /\ self.product_type = PRODUCTS[2]
    /\ self.discount_percent \in 0..10000
    /\ self.discount_price = None
    /\ module.discount \in 0..100
    /\ call.product_id = module.id
    /\ call.only_first_course => get_first_session_to_buy(NoUser) # <<>>

\* C15: with discount_percent and the module discount both in 0..100, the
\* price calculate returns is not negative and not above the undiscounted
\* base price, with and without use_with_others.
C15_PriceWithinBounds ==
    \A self \in promos : \A call \in cres :
        percent_call(self, call) =>
            /\ "status" \in DOMAIN call.result
            /\ call.result.status = 0
            /\ call.result.new_price >= 0
            /\ \E base \in base_prices(call) : call.result.new_price <= 100 * base

\* exactly one of discount_percent and discount_price is set
one_strategy(self) ==
    (self.discount_percent = None) # (self.discount_price = None)

\* C16: for a code of either product type with exactly one of
\* discount_percent and discount_price set, every calculate call returns
\* status 0 with a new_price or status 1 with a message; it never raises.
C16_CalculateTotal ==
    \A self \in promos : \A call \in cres :
        (self.product_type \in Range(PRODUCTS) /\ one_strategy(self)) =>
            /\ "status" \in DOMAIN call.result
            /\ \/ call.result.status = 0 /\ "new_price" \in DOMAIN call.result
               \/ call.result.status = 1 /\ "message" \in DOMAIN call.result

\* C17: a code with a fixed price that is set and not zero makes calculate
\* return status 0 with that price, whatever the product type, the
\* arguments, use_with_others, discount_percent and the module discount,
\* and whether or not the referenced module or session exists.
C17_FixedPricePrecedence ==
    \A self \in promos : \A call \in cres :
        (self.discount_price # None /\ self.discount_price # 0) =>
            call.result = [status |-> 0, new_price |-> self.discount_price]

\* a module code with a fixed price and a percent as well answered the
\* fixed price for a module that does not exist
C17_Witness ==
    \E self \in promos : \E call \in cres :
        /\ self.product_type = PRODUCTS[2]
        /\ self.discount_price = 9900
        /\ self.discount_percent = 5000
        /\ call.product_id # module.id
        /\ call.only_first_course
        /\ call.result = [status |-> 0, new_price |-> 9900]

\* ========================================================================
\* Properties of module enrollments
\* ========================================================================
one_per_pair ==
    \A a, b \in enrollments : (a.user = b.user /\ a.module = b.module) => a = b

\* C3: there is at most one enrollment for each (user, module), and the
\* creation of a second one for a pair fails and leaves the table as it was.
C3_OneEnrollmentPerPair ==
    /\ []one_per_pair
    /\ [][\A user \in Users, mod \in ModuleIds :
            (/\ same_pair(user, mod) # {}
             /\ \E is_graduated \in BOOLEAN : CreateEnrollment(user, mod, is_graduated))
            => /\ enrollments' = enrollments
               /\ \E call \in enrRes' : call.outcome = "IntegrityError"]_vars

\* a second creation for a pair was refused while other pairs have rows
C3_Witness ==
    /\ Cardinality(enrollments) >= 2
    /\ \E call \in enrRes :
          /\ call.outcome = "IntegrityError"
          /\ same_pair(call.user, call.module) # {}

\* every course of module mod has a session in sess whose certificate_data
\* reports passed
all_courses_passed(mod, sess) ==
    \A c \in moduleCourses[mod] :
        \E s \in sess : s.course_id = c /\ s.certificate_data = "passed"

\* C20: update_modules_graduation(user, sessions) sets is_graduated on an
\* ungraduated enrollment of the user exactly when every course of the
\* enrollment's module has a session in sessions that reports passed; a
\* graduated enrollment stays graduated, enrollments of other users and
\* every other field stay as they were, and no row is added or removed.
C20_GraduationUpdate ==
    [][\A user \in Users, sess \in SessionLists :
          UpdateModulesGraduation(user, sess) =>
             /\ Cardinality(enrollments') = Cardinality(enrollments)
             /\ \A e \in enrollments :
                   [e EXCEPT !.is_graduated =
                       \/ e.is_graduated
                       \/ e.user = user /\ all_courses_passed(e.module, sess)]
                     \in enrollments']_vars

\* a call graduated one enrollment of the user and left alone an
\* ungraduated one of the user with a course not passed, an ungraduated one
\* of another user with all courses passed, and a graduated one
C20_Witness ==
    \E call \in enrRes :
        /\ "sessions" \in DOMAIN call
        /\ \E a, b, c \in enrollments :
              /\ a.user = call.user /\ a.is_graduated
              /\ all_courses_passed(a.module, call.sessions)
              /\ b.user = call.user /\ ~b.is_graduated
              /\ ~all_courses_passed(b.module, call.sessions)
              /\ c.user # call.user /\ ~c.is_graduated
              /\ all_courses_passed(c.module, call.sessions)

\* ========================================================================
\* Properties of the progress sync client
\* ========================================================================
Timeouts == {"ReadTimeout", "ConnectTimeout"}

\* C4: request puts every call into exactly one class: a timeout raises
\* EDXTimeoutError, any other IO error EDXNotAvailable, a status of 500 or
\* more EDXNotAvailable, a status other than 200 below 500
\* EDXCommunicationError, and the response is returned only for status 200.
C4_RequestClassification ==
    \A p \in Procs : \A o \in proc[p].outcome :
        /\ Cardinality(proc[p].result) = 1
        /\ \A r \in proc[p].result :
              IF "exc" \in DOMAIN o
              THEN IF o.exc \in Timeouts
                   THEN r = [raised |-> "EDXTimeoutError"]
                   ELSE r = [raised |-> "EDXNotAvailable"]
              ELSE /\ o.status >= 500 => r = [raised |-> "EDXNotAvailable"]
                   /\ (o.status # 200 /\ o.status < 500) =>
                         r = [raised |-> "EDXCommunicationError"]
                   /\ o.status = 200 => r = [returned |-> 200]
                   /\ "returned" \in DOMAIN r => o.status = 200

\* a connect timeout (a Timeout that is a ConnectionError and an IOError
\* too) was classified as EDXTimeoutError
C4_Witness ==
    \E p \in Procs :
        /\ proc[p].outcome = {[exc |-> "ConnectTimeout"]}
        /\ proc[p].result = {[raised |-> "EDXTimeoutError"]}

request_failed(p) ==
    \E r \in proc[p].result :
        "raised" \in DOMAIN r /\ r.raised \in {"EDXTimeoutError", "EDXNotAvailable"}

\* C5 as stated: a failure (timeout or unavailable) is reported only after
\* the request was attempted again.
C5_RetriedBeforeFailure ==
    \A p \in Procs : request_failed(p) => proc[p].attempts >= 2

\* C5 (amended): the client does not retry: a call makes one attempt, and
\* a failed attempt is reported at once.
C5_SingleAttempt ==
    \A p \in Procs :
        /\ proc[p].attempts <= 1
        /\ proc[p].result # {} => proc[p].attempts = 1
        /\ proc[p].pc = "request" => proc[p].attempts = 0

\* a call ended on a timeout after its one attempt
C5_Witness ==
    \E p \in Procs :
        /\ proc[p].pc = "done"
        /\ proc[p].result = {[raised |-> "EDXTimeoutError"]}
        /\ proc[p].attempts = 1

ClassifiedErrors == {"EDXTimeoutError", "EDXNotAvailable", "EDXCommunicationError"}

\* C6: when the API call of update_module_enrollment_progress fails with a
\* classified error the function returns normally, and no step of the call
\* writes the progress table: no row is created and no blob changes.
C6_FailureLeavesProgress ==
    [][\A p \in Procs :
          /\ (proc[p].pc = "idle" /\ proc'[p].pc = "request") =>
                progressRecs' = progressRecs
          /\ (/\ proc[p].pc = "request"
              /\ \E r \in proc'[p].result :
                    "raised" \in DOMAIN r /\ r.raised \in ClassifiedErrors)
             => /\ proc'[p].pc = "done"
                /\ proc'[p].error = ""
                /\ progressRecs' = progressRecs]_vars

\* a call ended normally on each classified error past a stored blob
C6_Witness ==
    /\ \E rec \in progressRecs :
          /\ ~rec.is_null
          /\ "k1" \in DOMAIN rec.progress
          /\ rec.progress.k1.updated_at = 0
    /\ \E p, q \in Procs :
          /\ proc[p].pc = "done"
          /\ proc[p].result = {[raised |-> "EDXCommunicationError"]}
          /\ proc[q].pc = "done"
          /\ proc[q].result = {[raised |-> "EDXNotAvailable"]}

\* the blob stored for enrollment e
stored(recs, e) == {rec.progress : rec \in {r \in recs : r.enrollment = e /\ ~r.is_null}}

\* C7: when a call that got a response writes, the stored blob is the merge
\* of the blob the call read from the row (empty for a null blob) with the
\* response: every key of the response maps to the response's value stamped
\* with updated_at, every other key of the blob read keeps its value, and
\* no key is dropped; a call that found no row stores the stamped response.
C7_MergeOnSuccess ==
    [][\A p \in Procs :
          (proc[p].pc \in {"save", "create"} /\ proc'[p].pc = "done") =>
             \E o \in proc[p].outcome :
                LET prev == IF proc[p].pc = "save" THEN proc[p].prev ELSE <<>>
                IN  /\ stored(progressRecs', proc[p].enrollment) # {}
                    /\ \A b \in stored(progressRecs', proc[p].enrollment) :
                          /\ DOMAIN b = DOMAIN prev \cup DOMAIN o.body
                          /\ \A k \in DOMAIN o.body :
                                b[k] = [grade      |-> o.body[k].grade,
                                        updated_at |-> proc[p].now]
                          /\ \A k \in DOMAIN prev \ DOMAIN o.body : b[k] = prev[k]]_vars

\* a call has merged a response into a stored blob: one key kept from
\* before, one key new
C7_Witness ==
    \E p \in Procs :
        /\ proc[p].pc = "done"
        /\ proc[p].rec # None
        /\ \E b \in stored(progressRecs, proc[p].enrollment) :
              /\ DOMAIN b = {"k1", "k2"}
              /\ b.k1 = [grade |-> 5, updated_at |-> 0]
              /\ b.k2 = [grade |-> 7, updated_at |-> proc[p].now]

\* the call of p got a response and ran to its end without raising
completed_with_response(p) ==
    /\ proc[p].pc = "done"
    /\ \E r \in proc[p].result : "raised" \notin DOMAIN r

\* C18: once two calls for the same enrollment have both completed with a
\* response, the stored progress holds every course key the API returned
\* to either of them.
C18_NoLostUpdate ==
    \A p, q \in Procs :
        (/\ p # q
         /\ completed_with_response(p)
         /\ completed_with_response(q)
         /\ proc[p].enrollment = proc[q].enrollment) =>
            \E blob \in stored(progressRecs, proc[p].enrollment) :
                DOMAIN proc[p].data \cup DOMAIN proc[q].data \subseteq DOMAIN blob

\* the request of p's call got a response
got_response(p) == \E r \in proc[p].result : "raised" \notin DOMAIN r

\* C19: an enrollment never has more than one progress record, and a call
\* whose request got a response does not end by raising, also when two
\* calls for an enrollment without a record interleave their get and
\* create.
C19_OneRecordNoRaise ==
    /\ \A e \in enrollments : Cardinality(progress_of(e.id)) <= 1
    /\ \A p \in Procs : got_response(p) => proc[p].pc # "raised"

\* ========================================================================
\* Properties of enrollment types
\* ========================================================================
\* type t of a call cannot be bought when the call reads the clock: its
\* buy_start is not before the instant read, or its buy_expiration is
\* before the date read
outside_window(t, call) ==
    \/ t.buy_start # None /\ t.buy_start >= call.now_filter
    \/ t.buy_expiration # None /\ t.buy_expiration < date_of(call.now_exclude)

\* C14: a query for the verified types with the defaults, and
\* get_verified_mode_enrollment_type, return only types of the module asked
\* that are active, verified, with buy_start unset or before now and
\* buy_expiration unset or not before the date of now; the latter returns
\* at most one type, and none when the module's verified type is outside
\* its window.
C14_PurchaseWindow ==
    \A call \in tres :
        (call.mode = "verified" /\ call.exclude_expired /\ call.active) =>
            /\ \A t \in call.result :
                  /\ t \in enrTypes
                  /\ t.module = call.module
                  /\ t.active
                  /\ t.mode = "verified"
                  /\ t.buy_start = None \/ t.buy_start < call.now_filter
                  /\ t.buy_expiration = None
                        \/ t.buy_expiration >= date_of(call.now_exclude)
            /\ call.method = "get_verified_mode_enrollment_type"
                  => Cardinality(call.result) <= 1
            /\ (\A t \in enrTypes :
                   (t.module = call.module /\ t.mode = "verified")
                      => outside_window(t, call))
                  => call.result = {}

\* get_verified_mode_enrollment_type returned a type with both ends of the
\* window set, on the last day of the window
C14_Witness ==
    \E call \in tres : \E t \in call.result :
        /\ call.method = "get_verified_mode_enrollment_type"
        /\ t.buy_start # None
        /\ t.buy_expiration = date_of(call.now_exclude)

============================================================================
